---- MODULE Spec2Model ----
(***************************************************************************)
(* Cortex-M4 core utilities (cm4u_core.h): the DWT cycle timebase, the     *)
(* time-to-cycle conversions and the PRIMASK critical sections.            *)
(*                                                                         *)
(* A uint32_t is a sequence of 4 base-256 digits, least significant first, *)
(* a uint64_t one of 8 digits: the arithmetic below is exact at the        *)
(* source's widths and wraps where the C types wrap.                       *)
(***************************************************************************)
EXTENDS Integers, Sequences

VARIABLES
  DWT_defined,        \* build: the DWT macro is defined (cm4u_core.h:222,241,251)
  CoreDebug_defined,  \* build: the CoreDebug macro is defined (cm4u_core.h:222)
  DEMCR_TRCENA,       \* CoreDebug->DEMCR & TRCENA
  CTRL_CYCCNTENA,     \* DWT->CTRL & CYCCNTENA
  CYCCNT,             \* DWT->CYCCNT, a uint32_t
  pc,                 \* thread position: "idle" or "spin" (inside cm4u_delay_cycles)
  start,              \* the captured start reading (delay local / profile token)
  cycles,             \* argument of the running / last cm4u_delay_cycles call
  ret,                \* history: the operation that just returned, and its value
  nops,               \* loop bodies (__NOP) executed by the current delay call
  meas,               \* which measurement owns start: "none", "profile", "delay"
  elapsed,            \* history: true cycles since start was captured (uint64_t)
  wraps,              \* history: counter wraparounds since start was captured
  resetSince,         \* history: init() rewrote CYCCNT since start was captured
  fresh,              \* history: the counter advanced since the last loop poll
  ticks,              \* history: fine-grained advances used (bounds the model)
  initFalse,          \* history: some init() call has returned false
  initWrote,          \* history: the last init() call wrote a register
  conv_t,             \* conversion input: microseconds / milliseconds
  conv_hz,            \* conversion input: core_clock_hz
  conv,               \* last conversion and its result
  PRIMASK,            \* the global interrupt mask bit
  frames              \* execution contexts, thread first, running one last

tbVars   == <<DWT_defined, CoreDebug_defined, DEMCR_TRCENA, CTRL_CYCCNTENA, CYCCNT,
              pc, start, cycles, ret, nops, meas, elapsed, wraps, resetSince,
              fresh, ticks, initFalse, initWrote>>
convVars == <<conv_t, conv_hz, conv>>
critVars == <<PRIMASK, frames>>
vars     == <<tbVars, convVars, critVars>>

----------------------------------------------------------------------------
(* Fixed-width unsigned arithmetic on digit sequences. *)

RECURSIVE NatToDigits(_, _)
NatToDigits(n, k) ==
  IF k = 0 THEN <<>> ELSE <<n % 256>> \o NatToDigits(n \div 256, k - 1)

\* Only for values below 2^31.
RECURSIVE DigitsToNat(_)
DigitsToNat(d) ==
  IF d = <<>> THEN 0 ELSE Head(d) + 256 * DigitsToNat(Tail(d))

Zero(k) == [i \in 1..k |-> 0]

U32(n) == NatToDigits(n, 4)

\* The uint32_t with the 16-bit halves hi and lo.
U32hl(hi, lo) == <<lo % 256, lo \div 256, hi % 256, hi \div 256>>

\* Zero extension to k digits: (uint64_t)x.
Ext(d, k) == d \o Zero(k - Len(d))

\* Truncation to k digits: (uint32_t)x.
Trunc(d, k) == SubSeq(d, 1, k)

\* a + b + c with the carry out as the last digit.
RECURSIVE AddCarry(_, _, _)
AddCarry(a, b, c) ==
  IF a = <<>> THEN <<c>>
  ELSE LET s == Head(a) + Head(b) + c
       IN  <<s % 256>> \o AddCarry(Tail(a), Tail(b), s \div 256)

\* a + b modulo 256^Len(a).
AddW(a, b) == Trunc(AddCarry(a, b, 0), Len(a))

\* 1 when a + b wraps past 256^Len(a), else 0.
CarryOut(a, b) == AddCarry(a, b, 0)[Len(a) + 1]

\* a - b modulo 256^Len(a): unsigned subtraction.
SubW(a, b) ==
  Trunc(AddCarry(a, [i \in 1..Len(b) |-> 255 - b[i]], 1), Len(a))

\* a < b, unsigned, equal lengths.
RECURSIVE LtW(_, _)
LtW(a, b) ==
  IF a = <<>> THEN FALSE
  ELSE LET n == Len(a)
       IN  IF a[n] # b[n] THEN a[n] < b[n]
           ELSE LtW(SubSeq(a, 1, n - 1), SubSeq(b, 1, n - 1))

LeW(a, b) == ~LtW(b, a)

\* a * m + c modulo 256^Len(a), m and c small.
RECURSIVE MulSmallW(_, _, _)
MulSmallW(a, m, c) ==
  IF a = <<>> THEN <<>>
  ELSE LET p == Head(a) * m + c
       IN  <<p % 256>> \o MulSmallW(Tail(a), m, p \div 256)

\* a * b modulo 256^Len(a); b may be shorter than a.
RECURSIVE MulW(_, _)
MulW(a, b) ==
  IF b = <<>> THEN Zero(Len(a))
  ELSE AddW(MulSmallW(a, Head(b), 0),
            <<0>> \o Trunc(MulW(a, Tail(b)), Len(a) - 1))

\* Long division of a by the small d, carrying the remainder r in from above.
RECURSIVE DivStep(_, _, _)
DivStep(a, d, r) ==
  IF a = <<>> THEN [q |-> <<>>, r |-> r]
  ELSE LET n   == Len(a)
           cur == r * 256 + a[n]
           lo  == DivStep(SubSeq(a, 1, n - 1), d, cur % d)
       IN  [q |-> Append(lo.q, cur \div d), r |-> lo.r]

\* floor(a / d), same width as a.
DivW(a, d) == DivStep(a, d, 0).q

----------------------------------------------------------------------------
(* Time-to-cycle conversions. *)

US_PER_S == 1000000
MS_PER_S == 1000

\* The product had the casts been forgotten: a 32-bit multiply, widened after.
Product32(a, b) == Ext(MulW(a, b), 8)

\* uint64_t tmp = (uint64_t)core_clock_hz * (uint64_t)us;
Product64(a, b) == MulW(Ext(a, 8), Ext(b, 8))

cm4u_us_to_cycles(us, core_clock_hz) ==
  Trunc(DivW(Product64(core_clock_hz, us), US_PER_S), 4)

\* The conversion dividing in 32 bits: the quotient of the truncated product.
ms_to_cycles_narrow(ms, core_clock_hz) ==
  DivW(Trunc(Product64(core_clock_hz, ms), 4), MS_PER_S)

cm4u_ms_to_cycles(ms, core_clock_hz) ==
  Trunc(DivW(Product64(core_clock_hz, ms), MS_PER_S), 4)

----------------------------------------------------------------------------
(* DWT cycle timebase. *)

MaxTicks == 2   \* fine-grained counter advances explored
MaxWraps == 2   \* wraparounds counted exactly by the history variables
MaxNops  == 2   \* loop bodies counted exactly

NONE == "none"

\* Counter register values the hardware may hold before software touches it.
ResetValues == {U32(0), U32hl(65535, 65520)}

\* Cycles the counter may advance by in one step: fine ones (budgeted by
\* MaxTicks) and multiples of 2^30 (free).
FineStrides   == {U32(1), U32(16)}
CoarseStrides == {U32hl(16384, 0)}

\* Arguments tried for cm4u_delay_cycles.
DelayArgs == {U32(0), U32(1), U32(32), U32hl(65535, 65535)}

\* The counter increments: it exists, counting is enabled and trace is enabled.
Counting == DWT_defined /\ CTRL_CYCCNTENA /\ DEMCR_TRCENA

\* #if defined(DWT) && defined(CoreDebug)
InitAvailable == DWT_defined /\ CoreDebug_defined

\* The history variables count exactly up to MaxWraps wraparounds and
\* MaxWraps * 2^32 cycles, and stand still from there on.
Saturated == wraps >= MaxWraps \/ elapsed[5] >= MaxWraps

\* A start reading is captured: the history restarts.
Capture(owner, value) ==
  /\ start' = value
  /\ meas' = owner
  /\ elapsed' = Zero(8)
  /\ wraps' = 0
  /\ resetSince' = FALSE
  /\ fresh' = FALSE

hwRegs == <<DEMCR_TRCENA, CTRL_CYCCNTENA, CYCCNT>>
build  == <<DWT_defined, CoreDebug_defined>>
hist   == <<start, meas, elapsed, wraps, resetSince>>
others == <<convVars, critVars>>

cm4u_dwt_init ==
  /\ pc = "idle"
  /\ IF InitAvailable
     THEN /\ DEMCR_TRCENA' = TRUE
          /\ CYCCNT' = U32(0)
          /\ CTRL_CYCCNTENA' = TRUE
          /\ ret' = [op |-> "init", val |-> TRUE]
          /\ initWrote' = TRUE
          /\ resetSince' = (meas # NONE)
          /\ UNCHANGED initFalse
     ELSE /\ ret' = [op |-> "init", val |-> FALSE]
          /\ initWrote' = FALSE
          /\ initFalse' = TRUE
          /\ UNCHANGED <<hwRegs, resetSince>>
  /\ fresh' = FALSE
  /\ UNCHANGED <<build, pc, start, cycles, nops, meas, elapsed, wraps, ticks, others>>

\* The value cm4u_dwt_get_cycles returns.
GetCycles == IF DWT_defined THEN CYCCNT ELSE U32(0)

cm4u_dwt_get_cycles ==
  /\ pc = "idle"
  /\ ret' = [op |-> "get_cycles", val |-> GetCycles]
  /\ fresh' = FALSE
  /\ UNCHANGED <<build, hwRegs, pc, cycles, nops, hist, ticks, initFalse,
                 initWrote, others>>

cm4u_profile_cycles_start ==
  /\ pc = "idle"
  /\ Capture("profile", GetCycles)
  /\ ret' = [op |-> "profile_start", val |-> GetCycles]
  /\ UNCHANGED <<build, hwRegs, pc, cycles, nops, ticks, initFalse, initWrote, others>>

\* Its absolute-difference variant: right only while the counter has not wrapped.
ProfileAbsDiff(now, start_cycles) ==
  IF LtW(now, start_cycles) THEN SubW(start_cycles, now) ELSE SubW(now, start_cycles)

\* return (uint32_t)(now - start_cycles);
ProfileDiff(now, start_cycles) == SubW(now, start_cycles)

cm4u_profile_cycles_end ==
  /\ pc = "idle"
  /\ meas = "profile"
  /\ ret' = [op |-> "profile_end", val |-> ProfileDiff(GetCycles, start)]
  /\ fresh' = FALSE
  /\ UNCHANGED <<build, hwRegs, pc, cycles, nops, hist, ticks, initFalse,
                 initWrote, others>>

\* The loop condition comparing against start + cycles: not wraparound-safe.
DelayContinueSum(now, start_cycles, n) == LtW(now, AddW(start_cycles, n))

\* The loop condition with <= for <.
DelayContinueLe(now, start_cycles, n) == LeW(SubW(now, start_cycles), n)

\* while ((uint32_t)(DWT->CYCCNT - start) < cycles)
DelayContinue(now, start_cycles, n) == LtW(SubW(now, start_cycles), n)

\* cm4u_delay_cycles is entered: the start reading, or the immediate return
\* of a build without DWT.
DelayBegin(n) ==
  /\ pc = "idle"
  /\ cycles' = n
  /\ nops' = 0
  /\ IF DWT_defined
     THEN /\ Capture("delay", CYCCNT)
          /\ pc' = "spin"
          /\ ret' = [op |-> NONE, val |-> NONE]
     ELSE /\ ret' = [op |-> "delay", val |-> NONE]
          /\ meas' = NONE
          /\ fresh' = FALSE
          /\ UNCHANGED <<pc, start, elapsed, wraps, resetSince>>
  /\ UNCHANGED <<build, hwRegs, ticks, initFalse, initWrote, others>>

\* One evaluation of the loop condition, then the loop body or the return.
\* Two reads of a counting counter are at least one cycle apart.
DelayPoll ==
  /\ pc = "spin"
  /\ Counting => fresh
  /\ IF DelayContinue(CYCCNT, start, cycles)
     THEN /\ nops' = IF nops < MaxNops THEN nops + 1 ELSE nops
          /\ UNCHANGED <<pc, ret>>
     ELSE /\ pc' = "idle"
          /\ ret' = [op |-> "delay", val |-> NONE]
          /\ UNCHANGED nops
  /\ fresh' = FALSE
  /\ UNCHANGED <<build, hwRegs, cycles, hist, ticks, initFalse, initWrote, others>>

\* The hardware advances the counter by s cycles. Inside the delay loop one
\* advance separates two polls.
Tick(s) ==
  /\ Counting
  /\ pc = "spin" => ~fresh
  /\ s \in FineStrides => ticks < MaxTicks
  /\ ticks' = IF s \in FineStrides THEN ticks + 1 ELSE ticks
  /\ CYCCNT' = AddW(CYCCNT, s)
  /\ fresh' = TRUE
  /\ ret' = [op |-> NONE, val |-> NONE]
  /\ IF meas = "delay" /\ pc = "idle"
     THEN \* the delay call has returned: its locals and history are gone
          /\ meas' = NONE
          /\ start' = U32(0)
          /\ cycles' = U32(0)
          /\ nops' = 0
          /\ elapsed' = Zero(8)
          /\ wraps' = 0
     ELSE /\ IF meas # NONE /\ ~Saturated
             THEN /\ elapsed' = AddW(elapsed, Ext(s, 8))
                  /\ wraps' = wraps + CarryOut(CYCCNT, s)
             ELSE UNCHANGED <<elapsed, wraps>>
          /\ UNCHANGED <<meas, start, cycles, nops>>
  /\ UNCHANGED <<build, DEMCR_TRCENA, CTRL_CYCCNTENA, pc, resetSince, initFalse,
                 initWrote, others>>

\* No call made yet: locals and history at their start values.
TbLocals ==
  /\ pc = "idle"
  /\ start = U32(0)
  /\ cycles = U32(0)
  /\ ret = [op |-> NONE, val |-> NONE]
  /\ nops = 0
  /\ meas = NONE
  /\ elapsed = Zero(8)
  /\ wraps = 0
  /\ resetSince = FALSE
  /\ fresh = FALSE
  /\ ticks = 0
  /\ initFalse = FALSE
  /\ initWrote = FALSE

\* The build (which macros are defined) and the registers as the hardware
\* leaves them: counter value and enablement are not set by this code.
TbInit ==
  /\ DWT_defined \in BOOLEAN
  /\ CoreDebug_defined \in BOOLEAN
  /\ DEMCR_TRCENA \in (IF DWT_defined THEN BOOLEAN ELSE {FALSE})
  /\ CTRL_CYCCNTENA \in (IF DWT_defined THEN BOOLEAN ELSE {FALSE})
  /\ CYCCNT \in (IF DWT_defined THEN ResetValues ELSE {U32(0)})
  /\ TbLocals

\* The timebase at rest, for the specifications that do not exercise it.
TbIdle ==
  /\ DWT_defined = TRUE
  /\ CoreDebug_defined = TRUE
  /\ DEMCR_TRCENA = FALSE
  /\ CTRL_CYCCNTENA = FALSE
  /\ CYCCNT = U32(0)
  /\ TbLocals

ConvIdle ==
  /\ conv_t = U32(0)
  /\ conv_hz = U32(0)
  /\ conv = [fn |-> NONE, val |-> NONE]

CritIdle ==
  /\ PRIMASK = 0
  /\ frames = <<>>

TbNext ==
  \/ cm4u_dwt_init
  \/ cm4u_dwt_get_cycles
  \/ cm4u_profile_cycles_start
  \/ cm4u_profile_cycles_end
  \/ \E n \in DelayArgs : DelayBegin(n)
  \/ DelayPoll
  \/ \E s \in FineStrides \cup CoarseStrides : Tick(s)

Init == TbInit /\ ConvIdle /\ CritIdle

Spec == Init /\ [][TbNext]_vars

\* The delay loop runs while the thread is in it, and a counting counter advances.
TickAny == \E s \in FineStrides \cup CoarseStrides : Tick(s)

SpecFair == Spec /\ WF_vars(DelayPoll) /\ WF_vars(TickAny)

----------------------------------------------------------------------------
(* Timebase properties. *)

\* C1: cm4u_delay_cycles(N) never returns early: on a build that has the
\* counter, in the state the call returns to, at least N true cycles have
\* elapsed since the start reading, with or without a wraparound in between.
C1_DelayNeverEarly ==
  (DWT_defined /\ ret.op = "delay") => LeW(Ext(cycles, 8), elapsed)

\* C1 witness: a delay of 32 cycles started at 0xFFFFFFF0 has returned after
\* the counter wrapped during the wait and the loop body ran.
C1_Witness ==
  /\ DWT_defined /\ ret.op = "delay"
  /\ start = U32hl(65535, 65520) /\ cycles = U32(32)
  /\ wraps = 1 /\ nops >= 1

\* C2: once the delay loop spins on a counting counter it eventually returns,
\* for every N and every admissible advance between two polls.
C2_DelayCompletes == (pc = "spin" /\ Counting) ~> (pc = "idle")

\* What does hold: the loop returns whenever the exit window
\* [cycles, 2^32 - 1] is at least as wide as the largest advance between two
\* polls (2^30 cycles here), so that no poll can step over it.
DelayCompletesWithinWindow ==
  (pc = "spin" /\ Counting /\ LeW(cycles, U32hl(49152, 0))) ~> (pc = "idle")

\* C3 as stated: with at most one wraparound and no reset between the two
\* readings, cm4u_profile_cycles_end returns the true elapsed cycles.
C3_AtMostOneWrap ==
  (ret.op = "profile_end" /\ ~resetSince /\ wraps <= 1)
    => Ext(ret.val, 8) = elapsed

\* C3 amended: when fewer than 2^32 cycles elapsed and the counter was not reset
\* between the two readings, cm4u_profile_cycles_end returns the true elapsed
\* cycles (0 when the counter did not advance).
C3_ElapsedBelowPeriod ==
  (ret.op = "profile_end" /\ ~resetSince /\ SubSeq(elapsed, 5, 8) = Zero(4))
    => Ext(ret.val, 8) = elapsed

\* C3 witness: started at 0xFFFFFFF0, 32 cycles and one wraparound later
\* cm4u_profile_cycles_end returned 32.
C3_Witness ==
  /\ ret.op = "profile_end" /\ ~resetSince
  /\ start = U32hl(65535, 65520) /\ wraps = 1
  /\ ret.val = U32(32)

\* C6: without the counter init() returns false and writes no register and
\* every read returns 0; and whenever init() has returned false every later
\* read returns 0.
C6_InitFalseReadsZero ==
  /\ (~DWT_defined /\ ret.op = "init") => (ret.val = FALSE /\ ~initWrote)
  /\ (~DWT_defined /\ ret.op \in {"get_cycles", "profile_start"})
       => ret.val = U32(0)
  /\ (initFalse /\ ret.op \in {"get_cycles", "profile_start"})
       => ret.val = U32(0)

\* C7: every init() on hardware that has the counter returns true and leaves
\* trace enabled, the counter at zero and counting enabled.
C7_InitAlwaysConfigures ==
  (DWT_defined /\ ret.op = "init")
    => (ret.val = TRUE /\ DEMCR_TRCENA /\ CYCCNT = U32(0) /\ CTRL_CYCCNTENA)

\* What init() does guarantee: the same postcondition when both DWT and
\* CoreDebug are defined, on the first call and on every later one.
InitPostcondition ==
  (InitAvailable /\ ret.op = "init")
    => (ret.val = TRUE /\ DEMCR_TRCENA /\ CYCCNT = U32(0) /\ CTRL_CYCCNTENA)

\* The trace-enable bit, once set, is never cleared.
TraceEnableNeverCleared == [][DEMCR_TRCENA => DEMCR_TRCENA']_vars

\* C10: on a build that has the counter, a delay of N >= 1 cycles does not
\* return while the counter is stalled (its loop condition stays true, and a
\* returned call saw the counter advance); a delay of 0 cycles never executes
\* the loop body and returns at its first poll.
C10_StalledDelaySpins ==
  /\ (pc = "spin" /\ ~Counting /\ cycles # U32(0))
       => DelayContinue(CYCCNT, start, cycles)
  /\ (DWT_defined /\ ret.op = "delay" /\ cycles # U32(0)) => elapsed # Zero(8)
  /\ (cycles = U32(0)) => (nops = 0 /\ ~DelayContinue(CYCCNT, start, cycles))

\* C10 witness: init() was never called, the counter is stalled, and a delay
\* of 1 cycle has executed its loop body MaxNops times and still spins.
C10_Witness ==
  /\ DWT_defined /\ ~Counting /\ ~initWrote /\ ~initFalse
  /\ pc = "spin" /\ cycles = U32(1) /\ nops = MaxNops

----------------------------------------------------------------------------
(* Conversions: the inputs are drawn at the start, the two functions applied. *)

MaxSmallHz == 3   \* clocks 0..MaxSmallHz Hz are tried besides the named ones
MaxSmallT  == 3   \* times 0..MaxSmallT are tried besides the named ones

ClockValues ==
  {U32(n) : n \in 0..MaxSmallHz}
    \cup {U32(999), U32(999999), U32(1000000), U32(168000000), U32hl(65535, 65535)}

TimeValues ==
  {U32(n) : n \in 0..MaxSmallT}
    \cup {U32(10), U32(1000), U32(1000001), U32hl(65535, 65535)}

ConvInit ==
  /\ conv_hz \in ClockValues
  /\ conv_t \in TimeValues
  /\ conv = [fn |-> NONE, val |-> NONE]

UsToCycles ==
  /\ conv' = [fn |-> "us_to_cycles", val |-> cm4u_us_to_cycles(conv_t, conv_hz)]
  /\ UNCHANGED <<conv_t, conv_hz, tbVars, critVars>>

MsToCycles ==
  /\ conv' = [fn |-> "ms_to_cycles", val |-> cm4u_ms_to_cycles(conv_t, conv_hz)]
  /\ UNCHANGED <<conv_t, conv_hz, tbVars, critVars>>

ConvNext == UsToCycles \/ MsToCycles

InitConv == TbIdle /\ ConvInit /\ CritIdle

SpecConv == InitConv /\ [][ConvNext]_vars

\* The exact product of two uint32_t, in 96 bits.
ExactProduct(a, b) == MulW(Ext(a, 12), Ext(b, 12))

\* p is below 2^31.
FitsInt(p) == SubSeq(p, 5, Len(p)) = Zero(Len(p) - 4) /\ p[4] < 128

\* r = floor(hz * t / d) mod 2^32: with q, m the quotient and remainder of the
\* exact product, q * d + m is that product, m < d, and r is q's low 32 bits;
\* where the product fits an integer, r is also the integer quotient.
IsFloorQuotient(r, t, hz, d) ==
  LET p  == ExactProduct(hz, t)
      qm == DivStep(p, d, 0)
  IN  /\ qm.r < d
      /\ AddW(MulSmallW(qm.q, d, 0), NatToDigits(qm.r, 12)) = p
      /\ r = Trunc(qm.q, 4)
      /\ (FitsInt(p) /\ FitsInt(hz) /\ FitsInt(t))
           => DigitsToNat(r) = (DigitsToNat(hz) * DigitsToNat(t)) \div d

\* C4: cm4u_us_to_cycles(us, hz) = floor(hz * us / 1000000) mod 2^32, and the
\* 64-bit product the code forms is the exact product.
C4_UsToCyclesFloor ==
  (conv.fn = "us_to_cycles")
    => /\ IsFloorQuotient(conv.val, conv_t, conv_hz, US_PER_S)
       /\ Ext(Product64(conv_hz, conv_t), 12) = ExactProduct(conv_hz, conv_t)

\* C4 witness: 168 MHz and 10 us gave 1680 cycles.
C4_Witness ==
  /\ conv.fn = "us_to_cycles"
  /\ conv_hz = U32(168000000) /\ conv_t = U32(10)
  /\ conv.val = U32(1680)

\* C5: cm4u_ms_to_cycles(ms, hz) = floor(hz * ms / 1000) mod 2^32.
C5_MsToCyclesFloor ==
  (conv.fn = "ms_to_cycles")
    => IsFloorQuotient(conv.val, conv_t, conv_hz, MS_PER_S)

\* C5 witness: 168 MHz and 1 ms gave 168000 cycles.
C5_Witness ==
  /\ conv.fn = "ms_to_cycles"
  /\ conv_hz = U32(168000000) /\ conv_t = U32(1)
  /\ conv.val = U32(168000)

----------------------------------------------------------------------------
(* Critical sections on one core: the thread and nested interrupt handlers. *)

MaxNest  == 2   \* handlers that may be active at once
MaxDepth == 2   \* critical sections one context nests

\* A context: where it stands (pc "run", or "entering" between the mask read
\* and the disable of cm4u_critical_enter), the local primask of the call in
\* progress, the tokens of its open sections (innermost last), and history:
\* the mask at each of those calls, the last call returned and the mask its
\* token stood for.
NewFrame ==
  [pc |-> "run", primask |-> 0, saved |-> <<>>, before |-> <<>>,
   last |-> NONE, want |-> 0]

Top == frames[Len(frames)]

SetTop(f) == [frames EXCEPT ![Len(frames)] = f]

\* cm4u_global_irq_disable, by the thread outside any critical section.
cm4u_global_irq_disable ==
  /\ Len(frames) = 1 /\ Top.pc = "run" /\ Top.saved = <<>>
  /\ PRIMASK' = 1
  /\ frames' = SetTop([Top EXCEPT !.last = NONE])
  /\ UNCHANGED <<tbVars, convVars>>

\* cm4u_global_irq_enable, by the thread outside any critical section.
cm4u_global_irq_enable ==
  /\ Len(frames) = 1 /\ Top.pc = "run" /\ Top.saved = <<>>
  /\ PRIMASK' = 0
  /\ frames' = SetTop([Top EXCEPT !.last = NONE])
  /\ UNCHANGED <<tbVars, convVars>>

\* cm4u_critical_enter, first instruction: uint32_t primask = __get_PRIMASK();
EnterRead ==
  /\ Top.pc = "run"
  /\ Len(Top.saved) < MaxDepth
  /\ frames' = SetTop([Top EXCEPT !.pc = "entering",
                                  !.primask = PRIMASK,
                                  !.before = Append(@, PRIMASK),
                                  !.last = NONE])
  /\ UNCHANGED <<PRIMASK, tbVars, convVars>>

\* The rest of the call without its __disable_irq().
EnterNoDisable ==
  /\ Top.pc = "entering"
  /\ frames' = SetTop([Top EXCEPT !.pc = "run",
                                  !.saved = Append(@, Top.primask),
                                  !.last = "enter"])
  /\ UNCHANGED <<PRIMASK, tbVars, convVars>>

\* cm4u_critical_enter, the rest: __disable_irq(); return primask;
EnterDisable ==
  /\ Top.pc = "entering"
  /\ PRIMASK' = 1
  /\ frames' = SetTop([Top EXCEPT !.pc = "run",
                                  !.saved = Append(@, Top.primask),
                                  !.last = "enter"])
  /\ UNCHANGED <<tbVars, convVars>>

\* An exit that enables interrupts whatever it is given.
ExitEnables(primask) == 0

\* __set_PRIMASK(primask): bit 0 of the value becomes the mask.
SetPrimask(primask) == primask % 2

\* cm4u_critical_exit(token), the token being that of the innermost open section.
CriticalExit ==
  /\ Top.pc = "run"
  /\ Top.saved # <<>>
  /\ LET n == Len(Top.saved)
     IN  /\ PRIMASK' = SetPrimask(Top.saved[n])
         /\ frames' = SetTop([Top EXCEPT !.saved = SubSeq(@, 1, n - 1),
                                         !.before = SubSeq(@, 1, n - 1),
                                         !.last = "exit",
                                         !.want = Top.before[n]])
  /\ UNCHANGED <<tbVars, convVars>>

\* A maskable interrupt is taken: only while the mask is clear, at any
\* instruction boundary of the running context.
IrqEntry ==
  /\ PRIMASK = 0
  /\ Len(frames) <= MaxNest
  /\ frames' = Append(frames, NewFrame)
  /\ UNCHANGED <<PRIMASK, tbVars, convVars>>

\* The running handler returns, all its critical sections closed.
IrqReturn ==
  /\ Len(frames) > 1
  /\ Top.pc = "run" /\ Top.saved = <<>>
  /\ frames' = SubSeq(frames, 1, Len(frames) - 1)
  /\ UNCHANGED <<PRIMASK, tbVars, convVars>>

CritInit ==
  /\ PRIMASK \in {0, 1}
  /\ frames = <<NewFrame>>

CritNext ==
  \/ cm4u_global_irq_disable
  \/ cm4u_global_irq_enable
  \/ EnterRead
  \/ EnterDisable
  \/ CriticalExit
  \/ IrqEntry
  \/ IrqReturn

InitCrit == TbIdle /\ ConvIdle /\ CritInit

SpecCrit == InitCrit /\ [][CritNext]_vars

\* Between the return of cm4u_critical_enter and the matching exit.
InCritical(f) == f.pc = "run" /\ f.saved # <<>>

\* C8: every token is the mask that held before its cm4u_critical_enter call,
\* and still holds when the call disables interrupts; while the running context
\* has an open section interrupts are disabled (so they stay disabled until the
\* outermost exit); and after cm4u_critical_exit the mask is the one that held
\* before the matching enter.
C8_EnterExitRestore ==
  /\ \A i \in 1..Len(frames) :
       frames[i].saved = SubSeq(frames[i].before, 1, Len(frames[i].saved))
  /\ Top.pc = "entering" => PRIMASK = Top.primask
  /\ InCritical(Top) => PRIMASK = 1
  /\ Top.last = "enter" => PRIMASK = 1
  /\ Top.last = "exit" => PRIMASK = Top.want

\* C8 witness: the inner of two nested sections has just been exited; the outer
\* one was entered with interrupts enabled and they are still disabled.
C8_Witness ==
  /\ Len(frames) = 1
  /\ Top.last = "exit"
  /\ Top.saved = <<0>>
  /\ PRIMASK = 1

\* C9: no context is preempted between the return of its cm4u_critical_enter
\* and the matching exit: no handler runs inside a critical section and two
\* critical sections never overlap.
C9_NoHandlerInsideSection ==
  \A i \in 1..(Len(frames) - 1) : ~InCritical(frames[i])

\* C9 witness: a handler preempted the thread between the mask read and the
\* disable of cm4u_critical_enter, and is inside its own critical section.
C9_Witness ==
  /\ Len(frames) >= 2
  /\ frames[1].pc = "entering"
  /\ InCritical(Top)

====
